---- MODULE Spec2Model ----
(***************************************************************************)
(* Model of dust (dustcluster): the session multiplexer of                 *)
(* dustcluster/lineterm.py (ReceiveDemux, SessionManager, SSHTerm,         *)
(* LineTerm) and the node resolver of dustcluster/cluster.py.              *)
(*                                                                         *)
(* Two threads run in the multiplexer: the command thread (LineTerm's      *)
(* callers) and the receive thread (ReceiveDemux.receive_loop).  A step of *)
(* the model is one handler, or one iteration stage of a loop that blocks  *)
(* (select, stdin.read, Thread.join).  The remote ends and the terminal    *)
(* are the environment.                                                    *)
(***************************************************************************)
EXTENDS Integers, Sequences, FiniteSets, TLC

\* ------------------------------------------------------------------ bounds
NumNodes == 2       \* node identities the operator addresses
MaxOps   == 3       \* operations the command thread starts in one run
MaxKeys  == 3       \* keystrokes typed into one raw shell before end of input
MaxShellKeys == 4   \* the same, in the runs of one raw shell
MaxRawOps == 2      \* the same, in the runs that enter raw shells
MaxRawFaults == 1   \* remote exits, lost transports and channel errors in those runs
MaxData  == 1       \* chunks the remote ends produce in one run
MaxOrderData == 2   \* chunks the remote ends produce in a run that studies their order
MaxIdleData == 2    \* the same, whitespace chunks counted, in the runs on idle ticks
MaxIdleOps == 2     \* calls of LineTerm.command in those runs
MaxFaults == 2      \* remote exits, lost transports and channel errors in one run
MaxVms   == 3       \* instances the cloud provider may hold
MaxRes   == 3       \* resolver operations in one run

RecvMax  == 1024    \* achan.recv(1024)

Nodes   == 1..NumNodes
ConnIds == 1..MaxOps            \* every login opens one transport and one channel
TermIds == 1..MaxOps            \* every operation constructs at most one SSHTerm

CtrlC   == 3                    \* ord(d) == 3
Keys    == {3, 120}             \* an interrupt and an ordinary character

TtyAttrs == {"sane"}  \* what termios.tcgetattr may return before raw mode
RawAttrs == "raw"               \* after tty.setraw / tty.setcbreak

EchoOff == "stty -echo; export PS1='' "
EchoOn  == "stty echo; export PS1='rawshell'"
UserCmd == "uptime"
NL      == "\n"

VARIABLES
    terms,        \* the SSHTerm objects constructed so far (a sequence, index = identity)
    session_map,  \* SessionManager.session_map : node id -> term (0: no entry)
    chans,        \* ReceiveDemux.chans : channel -> term (0: not registered)
    conn,         \* the transports/channels opened so far (index = identity)
    dstate,       \* ReceiveDemux.state
    dpc,          \* where the receive thread is in receive_loop
    rq, eq,       \* the r and e lists of the current select, not yet iterated
    idle,         \* the idle tick: the iteration over chans and wrote_output
    console,      \* what was written to sys.stdout
    callbacks,    \* calls of refresh_callback
    tty,          \* the attributes of the controlling terminal
    cpc,          \* where the command thread is
    cterm,        \* the term the command thread holds (0: none)
    ckeys,        \* history: what the running raw shell read, in order (0: the read raised)
    ctrlc_count,  \* raw_shell_posix's ctrlc_count
    ctrlout,      \* raw_shell_posix's ctrlout
    nops,         \* operations started
    lastcall,     \* history: the latest SSHTerm.command call and the state it saw
    tty_on_entry, \* history: the terminal attributes when the raw shell was entered
    zero_read,    \* history: channels that gave a zero-length read
    ndata,        \* chunks produced by the remote ends
    nfaults,      \* remote exits, lost transports and channel errors so far
    last_exit     \* history: how the latest raw input loop ended, and whether it raised

muxvars == <<terms, session_map, chans, conn, dstate, dpc, rq, eq, idle, console, callbacks,
             tty, cpc, cterm, ckeys, ctrlc_count, ctrlout, nops, lastcall,
             tty_on_entry, zero_read, ndata, nfaults, last_exit>>

VARIABLES
    cloud_vms,    \* the instances the provider holds now
    nodecache,    \* Cluster.nodecache : region -> list of node objects (has: the key is there)
    region,       \* Cluster.cloud.region
    cur_cluster,  \* Cluster.cur_cluster (<<>>: none)
    dict_order,   \* the iteration order of the dict Cluster.clusters
    nfetch,       \* calls of EC2Cloud.refresh so far (a node object carries the one that made it)
    fetches,      \* history: calls of refresh per region since its latest invalidation
    nres,         \* resolver operations so far
    last          \* history: the latest resolver operation and what it returned

resvars == <<cloud_vms, nodecache, region, cur_cluster, dict_order, nfetch, fetches, nres, last>>

VARIABLES
    xfer          \* the put, get or command running over its target nodes, and
                  \* history: the calls of LineTerm it made so far

xfervars == <<xfer>>

vars == <<muxvars, resvars, xfervars>>

\* ------------------------------------------------------------ SSHTerm data
NewTerm(node) ==
    [node |-> node, state |-> "not_connected", transport |-> 0, chan |-> 0,
     recvbuf |-> <<>>, raw_shell_mode |-> FALSE, oldattrs |-> "none", echo |-> TRUE]

NewConn ==
    [alive |-> TRUE, eof |-> FALSE, err |-> FALSE, inbox |-> <<>>, sent |-> <<>>]

is_connected_MutNever(t) == FALSE

\* SSHTerm.is_connected: a transport that reports authenticated and active
is_connected(t) ==
    /\ terms[t].transport # 0
    /\ conn[terms[t].transport].alive

\* chan.send(x) on channel c of connection table cn
Send(cn, c, x) == [cn EXCEPT ![c].sent = Append(@, x)]

\* chan.send raises socket.error on a closed channel
send_raises(t) == conn[terms[t].chan].eof

command_MutNoCheck(cn, t, line) ==
    IF terms[t].chan = 0 THEN cn
    ELSE Send(Send(cn, terms[t].chan, line), terms[t].chan, NL)

\* SSHTerm.command: the connection table after command(line); a no-op unless the
\* state is connected and the transport is authenticated and active
command(cn, t, line) ==
    IF terms[t].state # "connected" THEN cn
    ELSE IF ~is_connected(t) THEN cn
    ELSE IF send_raises(t) THEN cn
    ELSE Send(Send(cn, terms[t].chan, line), terms[t].chan, NL)

\* whether command(line) raises out of chan.send
command_raises(t) ==
    /\ terms[t].state = "connected"
    /\ is_connected(t)
    /\ send_raises(t)

revert_tty_MutKeepFlag(trm) == trm

\* SSHTerm.revert_tty, the term's side
revert_tty(trm) == [trm EXCEPT !.raw_shell_mode = FALSE]

revert_tty_attrs_MutNoRestore(trm, cur) == cur

\* SSHTerm.revert_tty, the terminal's side: tcsetattr(oldattrs) if oldattrs
revert_tty_attrs(trm, cur) == IF trm.oldattrs # "none" THEN trm.oldattrs ELSE cur

\* ---------------------------------------------------------------- initial
\* no idle tick under way
NoIdle == [q |-> <<>>, size |-> 0, wrote_output |-> FALSE]

\* SessionManager.__init__ and what it constructs, with ids as the node identities
SessionInit(ids) ==
    /\ terms = <<>>
    /\ session_map = [n \in ids |-> 0]
    /\ chans = [c \in ConnIds |-> 0]
    /\ conn = <<>>
    /\ dstate = "created"
    /\ dpc = "select"
    /\ rq = <<>>
    /\ idle = NoIdle
    /\ eq = <<>>
    /\ console = <<>>
    /\ callbacks = 0
    /\ tty \in TtyAttrs
    /\ cpc = "idle"
    /\ cterm = 0
    /\ ckeys = <<>>
    /\ ctrlc_count = 0
    /\ ctrlout = FALSE
    /\ nops = 0
    /\ lastcall = [op |-> 0, term |-> 0, line |-> "", state |-> "", connected |-> FALSE]
    /\ tty_on_entry = "none"
    /\ zero_read = {}
    /\ ndata = 0
    /\ nfaults = 0
    /\ last_exit = [how |-> "none", raised |-> FALSE, sent0 |-> 0]

MuxInit == SessionInit(Nodes)

\* ------------------------------------------------------ SessionManager
\* SSHTerm.login on term t of table ts: connect() opens transport and channel k
login(ts, t, k) ==
    [ts EXCEPT ![t].transport = k, ![t].chan = k, ![t].state = "connected"]

\* ReceiveDemux.start
start(t, c) == [chans EXCEPT ![c] = t]

\* SessionManager.term_from_node(node); ok: whether a login it makes succeeds.
\* cterm' is the term returned, 0 when login raised.
term_from_node(node, ok) ==
    LET term == session_map[node]
        new  == Len(terms) + 1
        k    == Len(conn) + 1
    IN  IF term = 0
        THEN IF ok
             THEN /\ terms' = login(Append(terms, NewTerm(node)), new, k)
                  /\ conn' = Append(conn, NewConn)
                  /\ chans' = start(new, k)
                  /\ session_map' = [session_map EXCEPT ![node] = new]
                  /\ cterm' = new
             ELSE /\ terms' = Append(terms, NewTerm(node))
                  /\ cterm' = 0
                  /\ UNCHANGED <<conn, chans, session_map>>
        ELSE IF ~is_connected(term)
             THEN IF ok
                  THEN /\ terms' = login(terms, term, k)
                       /\ conn' = Append(conn, NewConn)
                       /\ cterm' = term
                       /\ UNCHANGED <<chans, session_map>>
                  ELSE /\ cterm' = 0
                       /\ UNCHANGED <<terms, conn, chans, session_map>>
             ELSE /\ cterm' = term
                  /\ UNCHANGED <<terms, conn, chans, session_map>>

\* SessionManager.remove_session(term), called by ReceiveDemux.stop
remove_session(term) ==
    /\ session_map' = [n \in DOMAIN session_map |->
                          IF session_map[n] = term THEN 0 ELSE session_map[n]]
    /\ IF terms[term].raw_shell_mode
       THEN /\ terms' = [terms EXCEPT ![term] = revert_tty(@)]
            /\ tty' = revert_tty_attrs(terms[term], tty)
       ELSE UNCHANGED <<terms, tty>>

\* ------------------------------------------------------- command thread
\* LineTerm.command, up to the return of term_from_node.  kind is "line" (cmd
\* given) or "shell" (cmd=None).  A login that raises ends the operation:
\* term is None in the finally clause.
LineTerm_command(node, kind, ok) ==
    /\ cpc = "idle"
    /\ nops < MaxOps
    /\ nops' = nops + 1
    /\ term_from_node(node, ok)
    /\ cpc' = IF cterm' = 0 THEN "idle"
              ELSE IF kind = "line" THEN "cmd_send" ELSE "shell_enter"
    /\ UNCHANGED <<dstate, dpc, rq, eq, idle, console, callbacks, tty, ckeys, ctrlc_count,
                   ctrlout, lastcall, tty_on_entry, zero_read, ndata, nfaults, last_exit>>
    /\ UNCHANGED <<resvars, xfervars>>

\* LineTerm.command with a cmd, after term_from_node: disable_echo if the term
\* echoes, command(cmd), and revert_tty in the finally clause
LineTerm_command_line ==
    /\ cpc = "cmd_send"
    /\ LET t == cterm
           raised == command_raises(t)
           cn1 == IF terms[t].echo THEN command(conn, t, EchoOff) ELSE conn
           echo1 == IF terms[t].echo /\ ~raised THEN FALSE ELSE terms[t].echo
       IN  /\ conn' = IF raised THEN conn ELSE command(cn1, t, UserCmd)
           /\ terms' = [terms EXCEPT ![t] = revert_tty([@ EXCEPT !.echo = echo1])]
           /\ tty' = revert_tty_attrs(terms[t], tty)
    /\ cpc' = "idle"
    /\ cterm' = 0
    /\ UNCHANGED <<session_map, chans, dstate, dpc, rq, eq, idle, console, callbacks, ckeys,
                   ctrlc_count, ctrlout, nops, lastcall, tty_on_entry, zero_read, ndata, nfaults, last_exit>>
    /\ UNCHANGED <<resvars, xfervars>>

\* LineTerm.command without a cmd, after term_from_node: enable_echo if the term
\* does not echo, then raw_shell_posix up to its input loop
LineTerm_command_shell ==
    /\ cpc = "shell_enter"
    /\ LET t == cterm
           raised == ~terms[t].echo /\ command_raises(t)
       IN  IF raised
           THEN /\ terms' = [terms EXCEPT ![t] = revert_tty(@)]
                /\ tty' = revert_tty_attrs(terms[t], tty)
                /\ cpc' = "idle"
                /\ cterm' = 0
                /\ UNCHANGED <<conn, ckeys, ctrlc_count, ctrlout, tty_on_entry, last_exit>>
           ELSE /\ conn' = IF terms[t].echo THEN conn ELSE command(conn, t, EchoOn)
                /\ terms' = [terms EXCEPT ![t].echo = TRUE,
                                          ![t].raw_shell_mode = TRUE,
                                          ![t].oldattrs = tty]
                /\ tty' = RawAttrs
                /\ tty_on_entry' = tty
                /\ ckeys' = <<>>
                /\ ctrlc_count' = 0
                /\ ctrlout' = FALSE
                /\ cpc' = "raw_loop"
                /\ last_exit' = [how |-> "running", raised |-> FALSE,
                                 sent0 |-> Len(conn'[terms[t].chan].sent)]
                /\ UNCHANGED cterm
    /\ UNCHANGED <<session_map, chans, dstate, dpc, rq, eq, idle, console, callbacks, nops,
                   lastcall, zero_read, ndata, nfaults>>
    /\ UNCHANGED <<resvars, xfervars>>

\* the test of "while self.raw_shell_mode" after an iteration that did not break
raw_loop_next(t) == IF terms[t].raw_shell_mode THEN "raw_loop" ELSE "raw_exit"

count_ctrlc_MutNoReset(count, k) == IF k = CtrlC THEN count + 1 ELSE count

\* lines 277-280: the count of consecutive interrupts after the character k
count_ctrlc(count, k) == IF k = CtrlC THEN count + 1 ELSE 0

\* one iteration of raw_shell_posix's loop that reads the character k
raw_shell_key(k) ==
    /\ cpc = "raw_loop"
    /\ ckeys' = Append(ckeys, k)
    /\ LET t == cterm
           cnt == count_ctrlc(ctrlc_count, k)
       IN  /\ ctrlc_count' = cnt
           /\ IF cnt > 2
              THEN /\ ctrlout' = TRUE
                   /\ cpc' = "raw_exit"
                   /\ last_exit' = [last_exit EXCEPT !.how = "ctrlc"]
                   /\ UNCHANGED conn
              ELSE /\ conn' = IF send_raises(t) THEN conn
                              ELSE Send(conn, terms[t].chan, k)
                   /\ cpc' = raw_loop_next(t)
                   /\ last_exit' = [last_exit EXCEPT
                                      !.how = IF raw_loop_next(t) = "raw_exit" THEN "flag" ELSE @,
                                      !.raised = @ \/ send_raises(t)]
                   /\ UNCHANGED ctrlout
    /\ UNCHANGED <<terms, session_map, chans, dstate, dpc, rq, eq, idle, console, callbacks,
                   tty, cterm, nops, lastcall, tty_on_entry, zero_read, ndata, nfaults>>
    /\ UNCHANGED <<resvars, xfervars>>

\* an iteration in which sys.stdin.read(1) returns '' (end of local input)
raw_shell_eof ==
    /\ cpc = "raw_loop"
    /\ cpc' = "raw_exit"
    /\ last_exit' = [last_exit EXCEPT !.how = "eof"]
    /\ UNCHANGED <<terms, session_map, chans, conn, dstate, dpc, rq, eq, idle, console,
                   callbacks, tty, cterm, ckeys, ctrlc_count, ctrlout, nops, lastcall,
                   tty_on_entry, zero_read, ndata, nfaults>>
    /\ UNCHANGED <<resvars, xfervars>>

\* an iteration in which sys.stdin.read(1) raises: logged, and the loop goes on
raw_shell_exc ==
    /\ cpc = "raw_loop"
    /\ ckeys' = Append(ckeys, 0)
    /\ cpc' = raw_loop_next(cterm)
    /\ last_exit' = [last_exit EXCEPT
                        !.how = IF raw_loop_next(cterm) = "raw_exit" THEN "flag" ELSE @,
                        !.raised = TRUE]
    /\ UNCHANGED <<terms, session_map, chans, conn, dstate, dpc, rq, eq, idle, console,
                   callbacks, tty, cterm, ctrlc_count, ctrlout, nops, lastcall,
                   tty_on_entry, zero_read, ndata, nfaults>>
    /\ UNCHANGED <<resvars, xfervars>>

\* raw_shell_posix after its loop (disable_echo after a triple interrupt, then
\* revert_tty), and the finally clause of LineTerm.command (revert_tty again,
\* also when disable_echo raised)
raw_shell_exit ==
    /\ cpc = "raw_exit"
    /\ LET t == cterm
           raised == ctrlout /\ command_raises(t)
           echo1 == IF ctrlout /\ ~raised THEN FALSE ELSE terms[t].echo
           trm1 == [terms[t] EXCEPT !.echo = echo1]
       IN  /\ conn' = IF ctrlout THEN command(conn, t, EchoOff) ELSE conn
           /\ terms' = [terms EXCEPT ![t] = IF raised THEN revert_tty(trm1)
                                           ELSE revert_tty(revert_tty(trm1))]
           /\ tty' = IF raised THEN revert_tty_attrs(terms[t], tty)
                     ELSE revert_tty_attrs(terms[t], revert_tty_attrs(terms[t], tty))
    /\ cpc' = "idle"
    /\ cterm' = 0
    /\ ckeys' = <<>>       \* the locals of raw_shell_posix end with it
    /\ ctrlc_count' = 0
    /\ ctrlout' = FALSE
    /\ last_exit' = [last_exit EXCEPT !.raised = @ \/ (ctrlout /\ command_raises(cterm))]
    /\ UNCHANGED <<session_map, chans, dstate, dpc, rq, eq, idle, console, callbacks, nops,
                   lastcall, tty_on_entry, zero_read, ndata, nfaults>>
    /\ UNCHANGED <<resvars, xfervars>>

\* a call of SSHTerm.command(line) on any term constructed so far
SSHTerm_command(t) ==
    /\ cpc = "idle"
    /\ nops < MaxOps
    /\ nops' = nops + 1
    /\ t \in 1..Len(terms)
    /\ conn' = command(conn, t, UserCmd)
    /\ lastcall' = [op |-> nops + 1, term |-> t, line |-> UserCmd,
                    state |-> terms[t].state, connected |-> is_connected(t)]
    /\ UNCHANGED <<terms, session_map, chans, dstate, dpc, rq, eq, idle, console, callbacks,
                   tty, cpc, cterm, ckeys, ctrlc_count, ctrlout, tty_on_entry, zero_read, ndata, nfaults, last_exit>>
    /\ UNCHANGED <<resvars, xfervars>>

\* SSHTerm.shutdown on every term of a set: state, chan.close(), transport.close()
shutdown_terms(ts, T) ==
    [t \in DOMAIN ts |-> IF t \in T THEN [ts[t] EXCEPT !.state = "shutdown"] ELSE ts[t]]

shutdown_conns(cn, T) ==
    [c \in DOMAIN cn |->
        IF \E t \in T : terms[t].chan = c \/ terms[t].transport = c
        THEN [cn[c] EXCEPT !.alive = FALSE, !.eof = TRUE] ELSE cn[c]]

\* SessionManager.shutdown, first part: term.shutdown() for every session
SessionManager_shutdown ==
    /\ cpc = "idle"
    /\ nops < MaxOps
    /\ nops' = nops + 1
    /\ LET T == {session_map[n] : n \in Nodes} \ {0}
       IN  /\ terms' = shutdown_terms(terms, T)
           /\ conn' = shutdown_conns(conn, T)
    /\ cpc' = "demux_shutdown"
    /\ UNCHANGED <<session_map, chans, dstate, dpc, rq, eq, idle, console, callbacks, tty,
                   cterm, ckeys, ctrlc_count, ctrlout, lastcall, tty_on_entry, zero_read, ndata, nfaults, last_exit>>
    /\ UNCHANGED <<resvars, xfervars>>

\* ReceiveDemux.shutdown: the stop flag, before thread.join()
ReceiveDemux_shutdown ==
    /\ cpc = "demux_shutdown"
    /\ dstate' = "shutdown"
    /\ cpc' = "join"
    /\ UNCHANGED <<terms, session_map, chans, conn, dpc, rq, eq, idle, console, callbacks,
                   tty, cterm, ckeys, ctrlc_count, ctrlout, nops, lastcall,
                   tty_on_entry, zero_read, ndata, nfaults, last_exit>>
    /\ UNCHANGED <<resvars, xfervars>>

\* thread.join() returns once the receive thread has ended
join_returns ==
    /\ cpc = "join"
    /\ dpc \in {"done", "crashed"}
    /\ cpc' = "idle"
    /\ UNCHANGED <<terms, session_map, chans, conn, dstate, dpc, rq, eq, idle, console,
                   callbacks, tty, cterm, ckeys, ctrlc_count, ctrlout, nops, lastcall,
                   tty_on_entry, zero_read, ndata, nfaults, last_exit>>
    /\ UNCHANGED <<resvars, xfervars>>

\* ------------------------------------------------------- receive thread
Min(a, b) == IF a < b THEN a ELSE b

RECURSIVE SeqOf(_)
\* the members of a set of channels as a list, in the registry's iteration order
SeqOf(S) ==
    IF S = {} THEN <<>>
    ELSE LET m == CHOOSE x \in S : \A y \in S : x <= y
         IN  <<m>> \o SeqOf(S \ {m})

\* the keys of ReceiveDemux.chans
Registered == {c \in ConnIds : chans[c] # 0}

\* select.select(self.chans, [], self.chans, 0.5): the channels with data or
\* end of file to read, and the channels in an exceptional condition
Readable == {c \in Registered : conn[c].inbox # <<>> \/ conn[c].eof}
InError  == {c \in Registered : conn[c].err}

stop_MutKeep(chan) ==
    /\ UNCHANGED chans
    /\ remove_session(chans[chan])

\* ReceiveDemux.stop(chan), for a registered chan
stop(chan) ==
    /\ chans' = [chans EXCEPT ![chan] = 0]
    /\ remove_session(chans[chan])

stop_requested_MutNever == FALSE

\* line 67: the test of the while loop fails once shutdown has set the state
stop_requested == dstate = "shutdown"

\* the top of the while loop and the select call
receive_loop_select ==
    /\ dpc = "select"
    /\ IF stop_requested
       THEN /\ dpc' = "done"
            /\ UNCHANGED <<rq, eq, idle>>
       ELSE /\ rq' = SeqOf(Readable)
            /\ idle' = IF Readable = {} /\ InError = {}
                       THEN [q |-> SeqOf(Registered), size |-> Cardinality(Registered),
                             wrote_output |-> FALSE]
                       ELSE NoIdle
            /\ eq' = SeqOf(InError)
            /\ dpc' = IF Readable # {} THEN "read"
                      ELSE IF InError # {} THEN "error" ELSE "idle"
    /\ UNCHANGED <<terms, session_map, chans, conn, dstate, console, callbacks, tty,
                   cpc, cterm, ckeys, ctrlc_count, ctrlout, nops, lastcall,
                   tty_on_entry, zero_read, ndata, nfaults, last_exit>>
    /\ UNCHANGED <<resvars, xfervars>>

\* where the loop goes when the iteration over r ends
after_read == IF eq # <<>> THEN "error" ELSE "select"

passthrough_MutNever(sshterm) == FALSE

\* line 81: whether what was read from the channel of sshterm goes to stdout
passthrough(sshterm) == terms[sshterm].raw_shell_mode

\* one pass of "for achan in r": recv, then disconnect, passthrough or buffering
receive_loop_read ==
    /\ dpc = "read"
    /\ LET achan == Head(rq)
           readbytes == SubSeq(conn[achan].inbox, 1, Min(Len(conn[achan].inbox), RecvMax))
           rest == SubSeq(conn[achan].inbox, Len(readbytes) + 1, Len(conn[achan].inbox))
           sshterm == chans[achan]
       IN  IF readbytes = <<>>
           THEN IF conn[achan].eof
                THEN \* len(readbytes) == 0: stop and break
                     /\ stop(achan)
                     /\ zero_read' = zero_read \cup {achan}
                     /\ rq' = <<>>
                     /\ dpc' = after_read
                     /\ UNCHANGED <<conn, console>>
                ELSE \* socket.timeout: pass
                     /\ rq' = Tail(rq)
                     /\ dpc' = IF Tail(rq) = <<>> THEN after_read ELSE "read"
                     /\ UNCHANGED <<terms, session_map, chans, conn, console, tty,
                                    zero_read>>
           ELSE /\ conn' = [conn EXCEPT ![achan].inbox = rest]
                /\ IF passthrough(sshterm)
                   THEN /\ console' = console \o
                               [i \in 1..Len(readbytes) |->
                                   [how |-> "raw", node |-> terms[sshterm].node,
                                    data |-> readbytes[i]]]
                        /\ UNCHANGED terms
                   ELSE /\ terms' = [terms EXCEPT ![sshterm].recvbuf = @ \o readbytes]
                        /\ UNCHANGED console
                /\ rq' = Tail(rq)
                /\ dpc' = IF Tail(rq) = <<>> THEN after_read ELSE "read"
                /\ UNCHANGED <<session_map, chans, tty, zero_read>>
    /\ UNCHANGED <<dstate, eq, idle, callbacks, cpc, cterm, ckeys, ctrlc_count, ctrlout, nops,
                   lastcall, tty_on_entry, ndata, nfaults, last_exit>>
    /\ UNCHANGED <<resvars, xfervars>>

\* one pass of "for achan in e": stop(achan); self.chans[chan] raises KeyError
\* for a channel no longer registered, which ends the thread
receive_loop_error ==
    /\ dpc = "error"
    /\ LET achan == Head(eq)
       IN  IF chans[achan] = 0
           THEN /\ dpc' = "crashed"
                /\ eq' = <<>>
                /\ UNCHANGED <<terms, session_map, chans, tty>>
           ELSE /\ stop(achan)
                /\ eq' = Tail(eq)
                /\ dpc' = IF Tail(eq) = <<>> THEN "select" ELSE "error"
    /\ UNCHANGED <<conn, dstate, rq, idle, console, callbacks, cpc, cterm, ckeys, ctrlc_count,
                   ctrlout, nops, lastcall, tty_on_entry, zero_read, ndata, nfaults, last_exit>>
    /\ UNCHANGED <<resvars, xfervars>>

\* recvbuf.strip(): the chunks of a buffer that are not whitespace only
strip(recvbuf) == SelectSeq(recvbuf, LAMBDA x : x[2] # 0)

\* lines 97-101 and 117: whether the idle tick writes the buffer of term t
flushes(t) ==
    /\ terms[t].recvbuf # <<>>
    /\ ~terms[t].raw_shell_mode
    /\ strip(terms[t].recvbuf) # <<>>

\* lines 118-122: what the idle tick writes for term t, every line of the buffer
\* after the prefix with the node's name
flush_out(t) ==
    [i \in 1..Len(terms[t].recvbuf) |->
        [how |-> "flush", node |-> terms[t].node, data |-> terms[t].recvbuf[i]]]

\* the idle tick ("if not r and not e"), one pass of "for chan, sshterm in
\* self.chans.iteritems()": the iteration raises RuntimeError when the registry
\* changed size since it began, which ends the thread; it flushes a buffered
\* line-mode session; at its end the refresh callback if something was written
receive_loop_idle ==
    /\ dpc = "idle"
    /\ IF Cardinality(Registered) # idle.size
       THEN /\ dpc' = "crashed"
            /\ idle' = NoIdle
            /\ UNCHANGED <<terms, console, callbacks>>
       ELSE IF idle.q = <<>>
       THEN /\ callbacks' = IF idle.wrote_output THEN 1 ELSE callbacks
            /\ dpc' = "select"
            /\ idle' = NoIdle
            /\ UNCHANGED <<terms, console>>
       ELSE LET t == chans[Head(idle.q)]
            IN  /\ console' = IF flushes(t) THEN console \o flush_out(t) ELSE console
                /\ terms' = IF flushes(t) THEN [terms EXCEPT ![t].recvbuf = <<>>] ELSE terms
                /\ idle' = [idle EXCEPT !.q = Tail(@),
                                        !.wrote_output = @ \/ flushes(t)]
                /\ UNCHANGED <<dpc, callbacks>>
    /\ UNCHANGED <<session_map, chans, conn, dstate, rq, eq, tty, cpc, cterm, ckeys,
                   ctrlc_count, ctrlout, nops, lastcall, tty_on_entry, zero_read, ndata, nfaults, last_exit>>
    /\ UNCHANGED <<resvars, xfervars>>

\* ---------------------------------------------------------- environment
envframe == <<terms, session_map, chans, dstate, dpc, rq, eq, idle, console, callbacks, tty,
              cpc, cterm, ckeys, ctrlc_count, ctrlout, nops, lastcall, tty_on_entry,
              zero_read, last_exit>>

\* the remote end of channel c produces a chunk of output
remote_data(c) ==
    /\ c \in 1..Len(conn)
    /\ ndata' = ndata + 1
    /\ conn' = [conn EXCEPT ![c].inbox = Append(@, <<c, ndata + 1>>)]
    /\ UNCHANGED <<envframe, nfaults>>
    /\ UNCHANGED <<resvars, xfervars>>

\* the remote end of channel c produces a chunk of whitespace only (a newline)
remote_blank(c) ==
    /\ c \in 1..Len(conn)
    /\ ndata < MaxIdleData
    /\ ndata' = ndata + 1
    /\ conn' = [conn EXCEPT ![c].inbox = Append(@, <<c, 0>>)]
    /\ UNCHANGED <<envframe, nfaults>>
    /\ UNCHANGED <<resvars, xfervars>>

\* the remote shell of channel c exits: end of file on the channel, the
\* transport stays authenticated and active
remote_eof(c) ==
    /\ c \in 1..Len(conn)
    /\ ~conn[c].eof
    /\ nfaults < MaxFaults
    /\ nfaults' = nfaults + 1
    /\ conn' = [conn EXCEPT ![c].eof = TRUE]
    /\ UNCHANGED <<envframe, ndata>>
    /\ UNCHANGED <<resvars, xfervars>>

\* the transport of connection c is lost
transport_drop(c) ==
    /\ c \in 1..Len(conn)
    /\ conn[c].alive
    /\ nfaults < MaxFaults
    /\ nfaults' = nfaults + 1
    /\ conn' = [conn EXCEPT ![c].alive = FALSE, ![c].eof = TRUE]
    /\ UNCHANGED <<envframe, ndata>>
    /\ UNCHANGED <<resvars, xfervars>>

\* channel c enters an exceptional condition
channel_error(c) ==
    /\ c \in 1..Len(conn)
    /\ ~conn[c].err
    /\ nfaults < MaxFaults
    /\ nfaults' = nfaults + 1
    /\ conn' = [conn EXCEPT ![c].err = TRUE]
    /\ UNCHANGED <<envframe, ndata>>
    /\ UNCHANGED <<resvars, xfervars>>

\* ============================================================ node resolver
\* Strings the resolver takes apart, matches or sorts are sequences of characters.
s_tags       == <<"t", "a", "g", "s">>
s_name       == <<"n", "a", "m", "e">>
s_cluster    == <<"c", "l", "u", "s", "t", "e", "r">>
s_state      == <<"s", "t", "a", "t", "e">>
s_Unassigned == <<"U", "n", "a", "s", "s", "i", "g", "n", "e", "d">>
s_running    == <<"r", "u", "n", "n", "i", "n", "g">>
s_stopped    == <<"s", "t", "o", "p", "p", "e", "d">>

\* None and the empty string: both false in a condition, both sorted before every
\* other string; no template below has an empty name
None == <<>>

\* the characters of cluster names, in the order of their codes
Alphabet == <<"a", "b", "c">>

Ord(ch) == CHOOSE i \in 1..Len(Alphabet) : Alphabet[i] = ch

\* a <= b for strings, as sorted() compares keys
RECURSIVE StrLE(_, _)
StrLE(a, b) ==
    IF a = <<>> THEN TRUE
    ELSE IF b = <<>> THEN FALSE
    ELSE IF Head(a) = Head(b) THEN StrLE(Tail(a), Tail(b))
    ELSE Ord(Head(a)) < Ord(Head(b))

\* s.rfind(ch): the index from 0 of the last ch in s, -1 when there is none
rfind(s, ch) ==
    LET I == {i \in 1..Len(s) : s[i] = ch}
    IN  IF I = {} THEN -1 ELSE (CHOOSE i \in I : \A j \in I : j <= i) - 1

\* s[a:] for a >= 0
SliceFrom(s, a) == SubSeq(s, a + 1, Len(s))

\* s[:b]; a negative b counts from the end
SliceTo(s, b) ==
    LET e == IF b < 0 THEN (IF Len(s) + b < 0 THEN 0 ELSE Len(s) + b)
             ELSE IF b > Len(s) THEN Len(s) ELSE b
    IN  SubSeq(s, 1, e)

\* s.split(ch)
RECURSIVE split(_, _)
split(s, ch) ==
    LET I == {i \in 1..Len(s) : s[i] = ch}
    IN  IF I = {} THEN <<s>>
        ELSE LET i == CHOOSE x \in I : \A j \in I : x <= j
             IN  <<SubSeq(s, 1, i - 1)>> \o split(SubSeq(s, i + 1, Len(s)), ch)

\* re.compile(fnmatch.translate(pat)).match(s): an anchored glob, * and ? wild
RECURSIVE fnmatch(_, _)
fnmatch(pat, s) ==
    IF pat = <<>> THEN s = <<>>
    ELSE IF Head(pat) = "*"
         THEN fnmatch(Tail(pat), s) \/ (s # <<>> /\ fnmatch(pat, Tail(s)))
         ELSE /\ s # <<>>
              /\ Head(pat) = "?" \/ Head(pat) = Head(s)
              /\ fnmatch(Tail(pat), Tail(s))

\* ------------------------------------------------------ provider and templates
VmIds   == 1..MaxVms
Regions == {"r1", "r2"}

web == <<"w", "e", "b">>
db  == <<"d", "b">>
any == <<"a", "n", "y">>
xx  == <<"x">>

\* the instances the provider may hold: odd ones in r1 with the tag cluster:a,
\* even ones in r2 with the tag cluster:c, but for instance 2, which has no
\* cluster tag
vm_region(v) == IF v % 2 = 1 THEN "r1" ELSE "r2"

vm_tags(v) ==
    {<<s_name, IF v = 1 THEN web ELSE IF v % 2 = 1 THEN db ELSE xx>>}
    \cup (IF v = 2 THEN {}
          ELSE {<<s_cluster, IF v % 2 = 1 THEN <<"a">> ELSE <<"c">> >>})

\* instance 2 is stopped, the others run
vm_state(v) == IF v = 2 THEN s_stopped ELSE s_running

\* Cluster.clusters, keyed by the cluster name.  Template a takes its nodes by the
\* default cluster tag and has a catch-all specification after a specific one;
\* template b has a filter that selects the nodes of every cluster of the region;
\* template c is in another region.
ClusterNames == {<<"a">>, <<"b">>, <<"c">>}

clusters ==
    [c \in ClusterNames |->
       IF c = <<"a">> THEN
          [cloud |-> [region |-> "r1"],
           cluster |-> [name |-> c, filter |-> <<>>],
           nodes |-> << [nodename |-> web, selector |-> <<>>],
                        [nodename |-> any, selector |-> s_tags \o <<"=">> \o s_name \o <<":", "*">>] >>]
       ELSE IF c = <<"b">> THEN
          [cloud |-> [region |-> "r1"],
           cluster |-> [name |-> c, filter |-> s_tags \o <<"=">> \o s_cluster \o <<":", "*">>],
           nodes |-> << [nodename |-> db, selector |-> s_tags \o <<"=">> \o s_name \o <<":", "d", "?">>] >>]
       ELSE
          [cloud |-> [region |-> "r2"],
           cluster |-> [name |-> c, filter |-> <<>>],
           nodes |-> << [nodename |-> xx, selector |-> <<>>] >>]]

\* the orders in which a dict with the cluster names as keys may iterate
DictOrders ==
    {o \in [1..Cardinality(ClusterNames) -> ClusterNames] :
        \A i, j \in DOMAIN o : i # j => o[i] # o[j]}

\* the target expressions given to resolve_target_nodes
Targets == {<<"*">>, <<"w", "*">>, s_state \o <<"=", "r", "*">>}

\* target expressions that filter by a field: a state glob, globs that match the
\* empty string, a filter with an empty value, a name glob
FilterTargets ==
    {s_state \o <<"=", "r", "*">>, s_state \o <<"=", "*">>, s_name \o <<"=", "*">>,
     s_state \o <<"=">>, <<"w", "*">>}

\* ------------------------------------------------------------------ EC2Node
\* EC2Cloud.refresh: new node objects, hydrated from the instances of the region
refresh(r) ==
    LET ids == SeqOf({v \in cloud_vms : vm_region(v) = r})
    IN  [i \in 1..Len(ids) |->
            [vm |-> ids[i], name |-> <<>>, cluster |-> None, gen |-> nfetch + 1]]

\* EC2Cloud.create_absent_node: a node object without an instance
create_absent_node(nodename) ==
    [vm |-> 0, name |-> nodename, cluster |-> None, gen |-> 0]

\* EC2Node.get for the properties that are strings
get(node, prop_name) ==
    IF prop_name = s_name THEN node.name
    ELSE IF node.vm = 0 THEN <<>>
    ELSE IF prop_name = s_state THEN vm_state(node.vm)
    ELSE <<>>

\* EC2Node.get('tags') of a hydrated node: the set of (key, value) pairs
get_tags(node) == vm_tags(node.vm)

\* ------------------------------------------------------------------ filters
\* Cluster._filter_tags
filter_tags(tags, fkey, fval) ==
    \E kv \in tags : fnmatch(fkey, kv[1]) /\ fnmatch(fval, kv[2])

\* the quotes around a tag key are dropped
unquote(fkey) ==
    IF Len(fkey) > 1 /\ fkey[1] = "\"" /\ fkey[Len(fkey)] = "\""
    THEN SubSeq(fkey, 2, Len(fkey) - 1) ELSE fkey

\* Cluster._filter on the list ns of node objects: the positions in ns of the
\* nodes kept, in order.  A tags filter is taken apart at its last colon, when
\* rfind gives a position that is true in a condition.
filter(ns, filterkey, filterval) ==
    IF filterkey = <<>> THEN [i \in 1..Len(ns) |-> i]
    ELSE IF filterkey = s_tags
    THEN LET by_tags(fkey, fval) ==
                 IF fkey = <<>> /\ fval = <<>> THEN <<>>
                 ELSE SeqOf({i \in 1..Len(ns) : filter_tags(get_tags(ns[i]), fkey, fval)})
             split_at(pos) ==
                 by_tags(IF pos # 0 THEN unquote(SliceTo(filterval, pos)) ELSE <<>>,
                         IF pos # 0 THEN SliceFrom(filterval, pos + 1) ELSE <<>>)
         IN  split_at(rfind(filterval, ":"))
    ELSE SeqOf({i \in 1..Len(ns) :
                  LET val == get(ns[i], filterkey)
                  IN  val # <<>> /\ fnmatch(filterval, val)})

\* Cluster.get_cluster_nodes: the positions of the candidates of a cluster
get_cluster_nodes(nodes, cluster_name) ==
    LET cluster_props == clusters[cluster_name].cluster
        by(kv) == filter(nodes, kv[1], kv[2])
    IN  by(IF cluster_props.filter = <<>>
           THEN <<s_tags, s_cluster \o <<":">> \o cluster_props.name>>
           ELSE split(cluster_props.filter, "="))

\* Cluster._find_matching_node: the positions in cluster_nodes of the matches
find_matching_node(node_props, cluster_nodes) ==
    LET by(kv) == filter(cluster_nodes, kv[1], kv[2])
    IN  by(IF node_props.selector # <<>>
           THEN split(node_props.selector, "=")
           ELSE <<s_tags, s_name \o <<":">> \o node_props.nodename>>)

\* ----------------------------------------------------------- reconciliation
\* The state of one pass of get_current_nodes_by_cluster: nodes, the node objects
\* of the region (those of the cache, changed in place); absent, the absent nodes
\* made; ret, ret_nodes, whose lists hold i for nodes[i] and -j for absent[j].
RetKeys == ClusterNames \cup {s_Unassigned}

Range(s) == {s[i] : i \in 1..Len(s)}

\* lines 538-567: one node specification of cluster cname, cand its candidates
match_spec(st, cname, cand, node_props) ==
    LET cluster_props == clusters[cname].cluster
        assign(matched_nodes, M) ==
            IF matched_nodes # <<>>
            THEN [st EXCEPT
                    !.nodes = [i \in 1..Len(st.nodes) |->
                                 IF i \in M
                                 THEN [st.nodes[i] EXCEPT !.name = node_props.nodename,
                                                          !.cluster = cluster_props.name]
                                 ELSE st.nodes[i]],
                    !.ret[cname] = @ \o matched_nodes]
            ELSE [st EXCEPT
                    !.absent = Append(@, [create_absent_node(node_props.nodename)
                                            EXCEPT !.cluster = cluster_props.name]),
                    !.ret[cname] = Append(@, 0 - (Len(st.absent) + 1))]
        matched(m) == assign([i \in 1..Len(m) |-> cand[m[i]]], {cand[m[i]] : i \in 1..Len(m)})
    IN  matched(find_matching_node(node_props, [i \in 1..Len(cand) |-> st.nodes[cand[i]]]))

\* line 537: the node specifications from the k-th on, in order
RECURSIVE match_specs(_, _, _, _)
match_specs(st, cname, cand, k) ==
    IF k > Len(clusters[cname].nodes) THEN st
    ELSE match_specs(match_spec(st, cname, cand, clusters[cname].nodes[k]), cname, cand, k + 1)

\* lines 528-572: one cluster.  Every candidate gets the cluster name, the
\* specifications are matched, the candidates still without a name are appended.
resolve_cluster(st, cname) ==
    LET sweep(st2, cand) ==
            [st2 EXCEPT !.ret[cname] = @ \o SelectSeq(cand, LAMBDA i : st2.nodes[i].name = <<>>)]
        assign(cand, C) ==
            sweep(match_specs([st EXCEPT !.nodes = [i \in 1..Len(st.nodes) |->
                                                      IF i \in C
                                                      THEN [st.nodes[i] EXCEPT !.cluster = cname]
                                                      ELSE st.nodes[i]]],
                              cname, cand, 1),
                  cand)
        candidates(cand) == assign(cand, Range(cand))
    IN  candidates(get_cluster_nodes(st.nodes, cname))

\* line 526: the clusters of the list cs from the k-th on
RECURSIVE resolve_clusters(_, _, _)
resolve_clusters(st, cs, k) ==
    IF k > Len(cs) THEN st
    ELSE resolve_clusters(resolve_cluster(st, cs[k]), cs, k + 1)

unassigned_MutNamed(st1, cur) ==
    IF cur # <<>> THEN st1
    ELSE [st1 EXCEPT !.ret[s_Unassigned] =
            SeqOf({i \in 1..Len(st1.nodes) :
                     st1.nodes[i].cluster = <<>> /\ st1.nodes[i].name # <<>>})]

\* lines 574-578: the sweep for unassigned nodes, made without a current cluster
unassigned(st1, cur) ==
    IF cur # <<>> THEN st1
    ELSE [st1 EXCEPT !.ret[s_Unassigned] =
            SeqOf({i \in 1..Len(st1.nodes) : st1.nodes[i].cluster = <<>>})]

\* Cluster.get_current_nodes_by_cluster, after the inventory is there: nodes are
\* the node objects of region r, cur is cur_cluster
get_current_nodes_by_cluster(nodes, r, cur) ==
    LET cs  == IF cur # <<>> THEN <<cur>>
               ELSE SelectSeq(dict_order, LAMBDA c : clusters[c].cloud.region = r)
        st0 == [nodes |-> nodes, absent |-> <<>>, ret |-> [k \in RetKeys |-> <<>>]]
    IN  unassigned(resolve_clusters(st0, cs, 1), cur)

\* the node object an entry of ret_nodes stands for
node_of(st, e) == IF e > 0 THEN st.nodes[e] ELSE st.absent[0 - e]

\* sorted(s, key=lambda x: x.cluster): stable
RECURSIVE sorted(_)
sorted(s) ==
    IF s = <<>> THEN <<>>
    ELSE LET x == s[Len(s)]
             put(r, k) == SubSeq(r, 1, k) \o <<x>> \o SubSeq(r, k + 1, Len(r))
             insert(r) == put(r, Cardinality({i \in 1..Len(r) : StrLE(r[i].cluster, x.cluster)}))
         IN  insert(sorted(SubSeq(s, 1, Len(s) - 1)))

\* the lists of ret_nodes one after the other, the keys from the k-th on
RECURSIVE flatten(_, _, _)
flatten(st, keys, k) ==
    IF k > Len(keys) THEN <<>>
    ELSE [i \in 1..Len(st.ret[keys[k]]) |-> node_of(st, st.ret[keys[k]][i])]
         \o flatten(st, keys, k + 1)

\* Cluster.get_current_nodes on the outcome of a pass: flattened and sorted
get_current_nodes(st) == sorted(flatten(st, <<s_Unassigned>> \o dict_order, 1))

\* Cluster.resolve_target_nodes, after get_current_nodes gave cluster_nodes
resolve_target_nodes(cluster_nodes, target_node_name) ==
    IF target_node_name = <<"*">> THEN cluster_nodes
    ELSE LET pick(f) == [i \in 1..Len(f) |-> cluster_nodes[f[i]]]
             by(kv) == IF kv[1] # <<>> /\ kv[2] # <<>>
                       THEN pick(filter(cluster_nodes, kv[1], kv[2]))
                       ELSE cluster_nodes
         IN  by(IF target_node_name = <<>> THEN <<<<>>, <<>>>>
                ELSE IF "=" \in Range(target_node_name) THEN split(target_node_name, "=")
                ELSE <<s_name, target_node_name>>)

\* ------------------------------------------------------- resolver operations
\* lines 505-506: the cache entry of region r is there and true in a condition
cache_hit(r) == nodecache[r].has /\ nodecache[r].nodes # <<>>

\* what the caller of a pass holds afterwards
NoResult == [op |-> "none", n |-> 0, target |-> <<>>, fetched |-> FALSE,
             bycluster |-> [k \in RetKeys |-> <<>>], cluster_nodes |-> <<>>,
             result |-> <<>>]

\* One resolution for region r with cur as the current cluster: the inventory from
\* the cache or from the provider (and then into the cache), the pass, the flattened
\* list, the target filter (target <<"*">> for get_current_nodes).
Resolution(op, r, cur, target) ==
    LET hit == cache_hit(r)
    IN  \E st \in {get_current_nodes_by_cluster(IF hit THEN nodecache[r].nodes ELSE refresh(r),
                                                 r, cur)} :
        \E cluster_nodes \in {get_current_nodes(st)} :
            /\ nodecache' = [nodecache EXCEPT ![r] = [has |-> TRUE, nodes |-> st.nodes]]
            /\ nfetch' = IF hit THEN nfetch ELSE nfetch + 1
            /\ fetches' = [fetches EXCEPT ![r] = IF hit THEN @ ELSE @ + 1]
            /\ last' = [op |-> op, n |-> nres + 1, target |-> target, fetched |-> ~hit,
                        bycluster |-> [k \in RetKeys |->
                                         [i \in 1..Len(st.ret[k]) |-> node_of(st, st.ret[k][i])]],
                        cluster_nodes |-> cluster_nodes,
                        result |-> resolve_target_nodes(cluster_nodes, target)]

Cluster_get_current_nodes ==
    /\ nres < MaxRes
    /\ nres' = nres + 1
    /\ Resolution("get_current_nodes", region, cur_cluster, <<"*">>)
    /\ UNCHANGED <<cloud_vms, region, cur_cluster, dict_order>>
    /\ UNCHANGED <<muxvars, xfervars>>

Cluster_resolve_target_nodes(target) ==
    /\ nres < MaxRes
    /\ nres' = nres + 1
    /\ Resolution("resolve_target_nodes", region, cur_cluster, target)
    /\ UNCHANGED <<cloud_vms, region, cur_cluster, dict_order>>
    /\ UNCHANGED <<muxvars, xfervars>>

\* a region without a key in the cache
NoEntry == [has |-> FALSE, nodes |-> <<>>]

\* Cluster.invalidate_cache, the cache's side
invalidate_cache(r) ==
    IF cache_hit(r) THEN [nodecache EXCEPT ![r] = NoEntry] ELSE nodecache

Cluster_invalidate_cache ==
    /\ nres < MaxRes
    /\ nres' = nres + 1
    /\ nodecache' = invalidate_cache(region)
    /\ fetches' = [fetches EXCEPT ![region] = 0]
    /\ last' = [NoResult EXCEPT !.op = "invalidate_cache", !.n = nres + 1]
    /\ UNCHANGED <<cloud_vms, region, cur_cluster, dict_order, nfetch>>
    /\ UNCHANGED <<muxvars, xfervars>>

\* Cluster.switch_to_cluster: an unrecognized name changes nothing; otherwise the
\* cluster becomes current, its region's provider is taken, and the nodes are
\* resolved and shown
Cluster_switch_to_cluster(cluster_name) ==
    /\ nres < MaxRes
    /\ nres' = nres + 1
    /\ IF cluster_name \notin ClusterNames
       THEN /\ last' = [NoResult EXCEPT !.op = "switch_to_unknown", !.n = nres + 1]
            /\ UNCHANGED <<nodecache, region, cur_cluster, nfetch, fetches>>
       ELSE /\ cur_cluster' = cluster_name
            /\ region' = clusters[cluster_name].cloud.region
            /\ Resolution("switch_to_cluster", clusters[cluster_name].cloud.region,
                          cluster_name, <<"*">>)
    /\ UNCHANGED <<cloud_vms, dict_order>>
    /\ UNCHANGED <<muxvars, xfervars>>

Cluster_unload_cur_cluster ==
    /\ nres < MaxRes
    /\ nres' = nres + 1
    /\ cur_cluster' = <<>>
    /\ nodecache' = invalidate_cache(region)
    /\ fetches' = [fetches EXCEPT ![region] = 0]
    /\ last' = [NoResult EXCEPT !.op = "unload_cur_cluster", !.n = nres + 1]
    /\ UNCHANGED <<cloud_vms, region, dict_order, nfetch>>
    /\ UNCHANGED <<muxvars, xfervars>>

\* an instance appears at the provider
vm_launched(v) ==
    /\ v \notin cloud_vms
    /\ cloud_vms' = cloud_vms \cup {v}
    /\ UNCHANGED <<nodecache, region, cur_cluster, dict_order, nfetch, fetches, nres, last>>
    /\ UNCHANGED <<muxvars, xfervars>>

\* an instance is gone from the provider
vm_terminated(v) ==
    /\ v \in cloud_vms
    /\ cloud_vms' = cloud_vms \ {v}
    /\ UNCHANGED <<nodecache, region, cur_cluster, dict_order, nfetch, fetches, nres, last>>
    /\ UNCHANGED <<muxvars, xfervars>>

\* Cluster.__init__ and init_default_provider with r1 as the default region
ClusterInit ==
    /\ nodecache = [r \in Regions |-> [has |-> FALSE, nodes |-> <<>>]]
    /\ region = "r1"
    /\ cur_cluster = <<>>
    /\ nfetch = 0
    /\ fetches = [r \in Regions |-> 0]
    /\ nres = 0
    /\ last = NoResult

\* ============================================================ put, get, command
\* Strings of the file commands
RemoteFile == <<"/", "o", "/", "f">>
LocalDirs  == {<<>>, <<"/", "t">>}     \* no localdir, or one

\* the identity a node is registered under: its instance, None (0) without one
node_id(node) == node.vm
NodeIds == 0..MaxVms

\* os.path.basename
basename(path) == SliceFrom(path, rfind(path, "/") + 1)

\* os.path.join(a, b) for a relative b
join(a, b) == IF a = <<>> THEN b
              ELSE IF a[Len(a)] = "/" THEN a \o b ELSE a \o <<"/">> \o b

\* LineTerm.get, lines 441-447: the local path a download is saved under
localfile(remotefile, localdir, name) ==
    (IF localdir # <<>> THEN join(localdir, basename(remotefile)) ELSE basename(remotefile))
        \o <<".">> \o name

running_MutAnyState(target_nodes) == target_nodes

\* Cluster.running_nodes_from_target, line 661: the nodes whose state is running
running(target_nodes) ==
    SelectSeq(target_nodes, LAMBDA node : get(node, s_state) = s_running)

NoXfer == [op |-> "none", targets |-> <<>>, q |-> <<>>, localdir |-> <<>>, log |-> <<>>]

\* put, get (getput.py) or a command up to its loop over the target nodes:
\* running_nodes_from_target, and nothing more when it returns no node or the glob
\* gives no file.  Args: the <<localdir, whether the glob gives a file>> to choose from
fanout(op, target, Args) ==
    /\ xfer.q = <<>>
    /\ cpc = "idle"
    /\ nres < MaxRes
    /\ nres' = nres + 1
    /\ Resolution(op, region, cur_cluster, target)
    /\ \E target_nodes \in {running(last'.result)}, args \in Args :
          /\ nops + Len(target_nodes) <= MaxOps
          /\ xfer' = [op |-> op, targets |-> target_nodes,
                      q |-> IF args[2] THEN target_nodes ELSE <<>>,
                      localdir |-> args[1], log |-> <<>>]
    /\ UNCHANGED <<cloud_vms, region, cur_cluster, dict_order>>
    /\ UNCHANGED muxvars

getput_put(target) == fanout("put", target, {<<>>} \X BOOLEAN)

getput_get(target) == fanout("get", target, LocalDirs \X BOOLEAN)

\* a command sent to the running nodes of a target
at_command(target) == fanout("command", target, {<< <<>>, TRUE >>})

call_raises_MutNoCatch(outcome) == outcome \in {"login", "error"}

\* LineTerm.put, LineTerm.get and LineTerm.command catch every Exception: whether
\* the call raises into the loop over the target nodes
call_raises(outcome) == FALSE

\* the loop "for node in target_nodes" after one call: an exception ends it
loop_next(q, outcome) == IF call_raises(outcome) THEN <<>> ELSE Tail(q)

\* the frame of one call of LineTerm for the next target node
xferframe == <<dstate, dpc, rq, eq, idle, console, callbacks, tty, cpc, ckeys, ctrlc_count,
               ctrlout, lastcall, tty_on_entry, zero_read, ndata, nfaults, last_exit>>

\* one call of LineTerm for the next node: outcome "skip" stands for the local
\* check that returns before the session is looked up
call(outcome, path) ==
    /\ nops' = nops + 1
    /\ xfer' = [xfer EXCEPT !.q = loop_next(@, outcome),
                            !.log = Append(@, [node |-> Head(xfer.q), outcome |-> outcome,
                                               path |-> path])]
    /\ UNCHANGED xferframe
    /\ UNCHANGED resvars

\* LineTerm.put for the next target node.  isfile: the source is a file; ok: a
\* login succeeds; sent: sftp.put does not raise
LineTerm_put(isfile, ok, sent) ==
    /\ xfer.op = "put"
    /\ xfer.q # <<>>
    /\ IF ~isfile
       THEN /\ call("nosrc", <<>>)
            /\ UNCHANGED <<terms, session_map, chans, conn, cterm>>
       ELSE /\ term_from_node(node_id(Head(xfer.q)), ok)
            /\ call(IF cterm' = 0 THEN "login" ELSE IF sent THEN "ok" ELSE "error", <<>>)

\* LineTerm.get for the next target node.  isdir: localdir, if given, is a
\* directory; ok: a login succeeds; got: sftp.get does not raise
LineTerm_get(isdir, ok, got) ==
    /\ xfer.op = "get"
    /\ xfer.q # <<>>
    /\ IF xfer.localdir # <<>> /\ ~isdir
       THEN /\ call("nodir", <<>>)
            /\ UNCHANGED <<terms, session_map, chans, conn, cterm>>
       ELSE /\ term_from_node(node_id(Head(xfer.q)), ok)
            /\ call(IF cterm' = 0 THEN "login" ELSE IF got THEN "ok" ELSE "error",
                    IF cterm' # 0 /\ got
                    THEN localfile(RemoteFile, xfer.localdir, Head(xfer.q).name) ELSE <<>>)

\* LineTerm.command(keyfile, node, cmd) for the next target node, in one step
LineTerm_command_node(ok) ==
    /\ xfer.op = "command"
    /\ xfer.q # <<>>
    /\ term_from_node(node_id(Head(xfer.q)), ok)
    /\ call(IF cterm' = 0 THEN "login" ELSE "ok", <<>>)


\* ------------------------------------------------------- specification
\* the multiplexer is studied with the resolver at rest
Init ==
    /\ MuxInit
    /\ ClusterInit
    /\ cloud_vms = {}
    /\ dict_order = CHOOSE o \in DictOrders : TRUE
    /\ xfer = NoXfer

\* the receive thread
Demux ==
    \/ receive_loop_select
    \/ receive_loop_read
    \/ receive_loop_error
    \/ receive_loop_idle

\* the remote ends
Env ==
    \/ \E c \in ConnIds : ndata < MaxData /\ remote_data(c)
    \/ \E c \in ConnIds : remote_eof(c)
    \/ \E c \in ConnIds : transport_drop(c)
    \/ \E c \in ConnIds : channel_error(c)

\* line commands, direct SSHTerm.command calls and shutdown
Next ==
    \/ \E n \in Nodes, ok \in BOOLEAN : LineTerm_command(n, "line", ok)
    \/ LineTerm_command_line
    \/ \E t \in TermIds : SSHTerm_command(t)
    \/ SessionManager_shutdown
    \/ ReceiveDemux_shutdown
    \/ join_returns
    \/ Demux
    \/ Env

Spec == Init /\ [][Next]_vars

\* line commands and raw shells on one node
RawNext ==
    \/ \E kind \in {"line", "shell"}, ok \in BOOLEAN :
          nops < MaxRawOps /\ LineTerm_command(1, kind, ok)
    \/ LineTerm_command_line
    \/ LineTerm_command_shell
    \/ \E k \in Keys : Len(ckeys) < MaxKeys /\ raw_shell_key(k)
    \/ raw_shell_eof
    \/ Len(ckeys) < MaxKeys /\ raw_shell_exc
    \/ raw_shell_exit
    \/ Demux
    \/ nfaults < MaxRawFaults /\ Env
    \/ \E c \in ConnIds : ndata < MaxData /\ remote_data(c)

SpecRaw == Init /\ [][RawNext]_vars

\* one raw shell on one node, with more keystrokes
KeysNext ==
    \/ \E ok \in BOOLEAN : nops < 1 /\ LineTerm_command(1, "shell", ok)
    \/ LineTerm_command_shell
    \/ \E k \in Keys : Len(ckeys) < MaxShellKeys /\ raw_shell_key(k)
    \/ raw_shell_eof
    \/ Len(ckeys) < MaxShellKeys /\ raw_shell_exc
    \/ raw_shell_exit
    \/ Demux
    \/ nfaults < MaxRawFaults /\ Env
    \/ \E c \in ConnIds : ndata < MaxData /\ remote_data(c)

SpecKeys == Init /\ [][KeysNext]_vars

\* line commands on the nodes, remote output with whitespace chunks, idle ticks
IdleNext ==
    \/ \E n \in Nodes, ok \in BOOLEAN : nops < MaxIdleOps /\ LineTerm_command(n, "line", ok)
    \/ LineTerm_command_line
    \/ Demux
    \/ \E c \in ConnIds : ndata < MaxData /\ remote_data(c)
    \/ \E c \in ConnIds : remote_blank(c)
    \/ nfaults < MaxRawFaults /\ Env

SpecIdle == Init /\ [][IdleNext]_vars

\* line commands and raw shells on one node that end at the end of local input,
\* with several chunks of remote output
OrderNext ==
    \/ \E kind \in {"line", "shell"}, ok \in BOOLEAN :
          nops < MaxRawOps /\ LineTerm_command(1, kind, ok)
    \/ LineTerm_command_line
    \/ LineTerm_command_shell
    \/ raw_shell_eof
    \/ raw_shell_exit
    \/ Demux
    \/ \E c \in ConnIds : ndata < MaxOrderData /\ remote_data(c)
    \/ nfaults < MaxRawFaults /\ Env

SpecOrder == Init /\ [][OrderNext]_vars

\* line commands and shutdown; the receive thread is scheduled as long as it
\* runs (its select returns within the poll interval), and a join returns once
\* the thread has ended
StopNext ==
    \/ \E n \in Nodes, ok \in BOOLEAN : nops < MaxIdleOps /\ LineTerm_command(n, "line", ok)
    \/ LineTerm_command_line
    \/ SessionManager_shutdown
    \/ ReceiveDemux_shutdown
    \/ join_returns
    \/ Demux
    \/ nfaults < MaxRawFaults /\ Env

SpecStop == Init /\ [][StopNext]_vars /\ WF_vars(Demux) /\ WF_vars(join_returns)

\* the resolver, with the multiplexer at rest: any inventory, any dict order
ResInit ==
    /\ MuxInit
    /\ ClusterInit
    /\ cloud_vms \in SUBSET VmIds
    /\ dict_order \in DictOrders
    /\ xfer = NoXfer

ResNext ==
    \/ Cluster_get_current_nodes
    \/ \E target \in Targets : Cluster_resolve_target_nodes(target)
    \/ Cluster_invalidate_cache
    \/ \E c \in ClusterNames \cup {<<"z">>} : Cluster_switch_to_cluster(c)
    \/ Cluster_unload_cur_cluster
    \/ \E v \in VmIds : vm_launched(v)
    \/ \E v \in VmIds : vm_terminated(v)

SpecRes == ResInit /\ [][ResNext]_vars

\* target filters over the resolved nodes: any inventory, any dict order
FilterNext ==
    \/ \E target \in FilterTargets : Cluster_resolve_target_nodes(target)
    \/ \E c \in ClusterNames : Cluster_switch_to_cluster(c)
    \/ Cluster_unload_cur_cluster
    \/ \E v \in VmIds : vm_launched(v)

SpecFilter == ResInit /\ [][FilterNext]_vars

\* put, get and commands over resolved nodes: any inventory, the sessions keyed
\* by instance
XferInit ==
    /\ SessionInit(NodeIds)
    /\ ClusterInit
    /\ cloud_vms \in SUBSET VmIds
    /\ dict_order = CHOOSE o \in DictOrders : TRUE
    /\ xfer = NoXfer

XferNext ==
    \/ \E target \in Targets : getput_put(target)
    \/ \E target \in Targets : getput_get(target)
    \/ \E target \in Targets : at_command(target)
    \/ \E isfile, ok, sent \in BOOLEAN : LineTerm_put(isfile, ok, sent)
    \/ \E isdir, ok, got \in BOOLEAN : LineTerm_get(isdir, ok, got)
    \/ \E ok \in BOOLEAN : LineTerm_command_node(ok)
    \/ \E c \in ClusterNames : xfer.q = <<>> /\ Cluster_switch_to_cluster(c)
    \/ \E c \in ConnIds : xfer.q = <<>> /\ transport_drop(c)

SpecXfer == XferInit /\ [][XferNext]_vars

\* ================================================================ claims
TermsMade == 1..Len(terms)

\* a logged-in session that was not shut down: state connected, transport
\* authenticated and active, shell channel open and not in error
Live(t) ==
    /\ terms[t].state = "connected"
    /\ is_connected(t)
    /\ ~conn[terms[t].chan].eof
    /\ ~conn[terms[t].chan].err

\* C1: at most one live (logged-in, not shut down) session exists per node
\* identity, and the Session Registry maps a node identity to at most one session.
C1_OneLiveSessionPerNode ==
    \A n \in Nodes :
        /\ Cardinality({t \in TermsMade : terms[t].node = n /\ Live(t)}) <= 1
        /\ session_map[n] \in TermsMade \cup {0}

\* C2: when term_from_node returns a session, the session's current shell channel is
\* a key of the demultiplexer's registry and maps to that session.
C2_ReturnedSessionRegistered ==
    [][(cpc = "idle" /\ cpc' \in {"cmd_send", "shell_enter"})
         => chans'[terms'[cterm'].chan] = cterm']_vars

\* the chunks of channel c held in receive buffers
Buffered(c) ==
    {x \in UNION {{terms[t].recvbuf[i] : i \in 1..Len(terms[t].recvbuf)} : t \in TermsMade} :
        x[1] = c}

\* the chunks of channel c written to the console
Written(c) == {x \in {console[i].data : i \in 1..Len(console)} : x[1] = c}

\* C3: a zero-length read on a channel removes the channel from the registered set
\* and its session from the Session Registry; from then on nothing is read from the
\* channel, appended to a receive buffer or written to the console for it, even when
\* the channel becomes readable again.
C3_NoDeliveryAfterDisconnect ==
    [][\A c \in zero_read' :
         IF c \notin zero_read
         THEN /\ chans'[c] = 0
              /\ \A n \in Nodes : session_map'[n] # chans[c]
         ELSE /\ chans'[c] = 0
              /\ Buffered(c)' = Buffered(c)
              /\ Written(c)' = Written(c)
              /\ Len(conn'[c].inbox) >= Len(conn[c].inbox)]_vars

\* a channel that gave a zero-length read has data to read again, and the receive
\* thread has polled since
C3_Witness ==
    \E c \in zero_read : conn[c].inbox # <<>> /\ dpc = "idle"

\* ------------------------------------------------------------ raw shell keys
\* the characters the running raw shell read (the reads that raised left out)
CharsRead == SelectSeq(ckeys, LAMBDA k : k # 0)

\* the number of interrupt characters at the end of s
RECURSIVE Trailing(_)
Trailing(s) ==
    IF s = <<>> THEN 0
    ELSE IF s[Len(s)] # CtrlC THEN 0
    ELSE 1 + Trailing(SubSeq(s, 1, Len(s) - 1))

\* the characters read before the exit by interrupt
BeforeExit ==
    IF Trailing(CharsRead) > 2 THEN SubSeq(CharsRead, 1, Len(CharsRead) - 1) ELSE CharsRead

\* what the running raw shell wrote to its channel
Forwarded ==
    SubSeq(conn[terms[cterm].chan].sent, last_exit.sent0 + 1, Len(conn[terms[cterm].chan].sent))

IsPrefix(a, b) == Len(a) <= Len(b) /\ a = SubSeq(b, 1, Len(a))

InRawShell == cpc \in {"raw_loop", "raw_exit"}

\* C11: the raw input loop leaves raw mode exactly when a third consecutive
\* interrupt character is read (one or two do not exit, any other character resets
\* the count), and every keystroke read before the exit was forwarded to the
\* channel in the order read.
C11_ExitExactlyOnThirdInterrupt ==
    InRawShell =>
        /\ cpc = "raw_exit" <=> Trailing(CharsRead) > 2
        /\ Forwarded = BeforeExit

\* C11 as amended: the loop leaves raw mode by interrupt exactly when a third
\* consecutive interrupt character is read; it also ends at the end of local input
\* and when the raw-mode flag was cleared after a disconnect.  The keystrokes read
\* before the exit are written to the channel in the order read, none left out as
\* long as the channel is open; on a closed channel the write raises and the
\* keystroke is dropped.
C11_InterruptExit ==
    InRawShell =>
        /\ ctrlout <=> Trailing(CharsRead) > 2
        /\ ctrlout => cpc = "raw_exit"
        /\ (cpc = "raw_exit" /\ ~ctrlout) => last_exit.how \in {"eof", "flag"}
        /\ IsPrefix(Forwarded, BeforeExit)
        /\ ~conn[terms[cterm].chan].eof => Forwarded = BeforeExit

\* the shell was left by a third consecutive interrupt that followed an interrupt,
\* another character and two more interrupts: the count was reset in between
C11_Witness ==
    /\ cpc = "raw_exit"
    /\ ctrlout
    /\ Len(CharsRead) > 3
    /\ Forwarded = BeforeExit

\* ------------------------------------------------------------ shutdown order
\* the receive thread has left receive_loop
DemuxEnded == dpc \in {"done", "crashed"}

\* C12: global shutdown sets the stop flag and joins the receive thread first, and
\* only afterwards closes a session: whenever a session is closed by shutdown, the
\* receive thread has ended and can run no further iteration.
C12_JoinBeforeClose ==
    (\E t \in TermsMade : terms[t].state = "shutdown") => (dstate = "shutdown" /\ DemuxEnded)

\* C36: once the shutdown of the receive thread is requested the loop ends: it
\* begins no iteration after the request (what is left is the iteration under
\* way), the thread ends, and the join returns, whatever channels are registered
C36_DemuxTerminates ==
    /\ [][(dstate = "shutdown" /\ dpc = "select" /\ dpc' # dpc) => dpc' = "done"]_vars
    /\ (dstate = "shutdown") ~> DemuxEnded
    /\ (cpc = "join") ~> (cpc = "idle" /\ DemuxEnded)

\* the join returned after the loop saw the request, with channels registered
\* that had data or an end of file left to read
C36_Witness ==
    /\ dstate = "shutdown"
    /\ cpc = "idle"
    /\ dpc = "done"
    /\ \E c \in Registered : conn[c].inbox # <<>> \/ conn[c].eof

\* ------------------------------------------------------------ the two registries
\* the receive thread is between its poll of the registry and the end of the
\* iteration that uses the poll's result (lookups, removals, the idle tick)
DemuxInRegistry == dpc \in {"read", "error", "idle"}

\* a step registers a channel: self.chans[sshterm.chan] = sshterm
Registers == \E c \in ConnIds : chans[c] = 0 /\ chans'[c] # 0

\* C13: accesses to the channel-to-session registry by the two threads are mutually
\* exclusive: no registration by the command thread happens while the receive
\* thread is between polling the registry and finishing its lookups, removals or
\* idle-tick iteration over it.
C13_RegistryMutuallyExclusive ==
    [][Registers => ~DemuxInRegistry]_vars

\* a step of the receive thread: it moves in receive_loop
DemuxStep == <<dpc, rq, eq, idle>>' # <<dpc, rq, eq, idle>>

\* C14: the Session Registry (node identity to session) is mutated only by the
\* command thread: no step of the receive thread adds or removes an entry of it.
C14_SessionRegistryCommandThreadOnly ==
    [][DemuxStep => session_map' = session_map]_vars

\* ------------------------------------------------------------ failed logins
\* the session term_from_node(node) logs in: the registered one, or a new one
login_term(node) == IF session_map[node] = 0 THEN Len(terms) + 1 ELSE session_map[node]

\* term_from_node(node) would call login: no session, or one that is not connected
attempts_login(node) == session_map[node] = 0 \/ ~is_connected(session_map[node])

\* C15: when a login made by term_from_node fails, on a first login or on a
\* re-login of a registered session, the operation aborts, the session's state
\* afterwards is not_connected, and the next term_from_node for the same node
\* attempts a login again.
C15_FailedLoginLeavesNotConnected ==
    [][\A node \in Nodes :
         (attempts_login(node) /\ LineTerm_command(node, "line", FALSE)) =>
            /\ cpc' = "idle"
            /\ conn' = conn
            /\ terms'[login_term(node)].state = "not_connected"
            /\ attempts_login(node)']_vars

\* ------------------------------------------------------------ put, get, command
\* the nodes LineTerm was called for in the latest put, get or command, in order
Called == [i \in 1..Len(xfer.log) |-> xfer.log[i].node]

Failures == {"login", "nosrc", "nodir", "error"}

\* C16: in a put or get over several target nodes, a failure on one node (login
\* failure, missing local source, missing local destination directory, an error
\* raised by the transfer) does not stop the loop: the nodes called so far and the
\* nodes still to come are, in order, the whole target set, so every later node
\* gets its transfer attempt.
C16_FailureDoesNotStopFanout ==
    (xfer.op \in {"put", "get"} /\ xfer.log # <<>>) => Called \o xfer.q = xfer.targets

\* a get over two nodes ended: the first node's login failed, the second node's
\* file was downloaded
C16_Witness ==
    /\ xfer.op = "get"
    /\ xfer.q = <<>>
    /\ Len(xfer.log) = 2
    /\ xfer.log[1].outcome = "login"
    /\ xfer.log[2].outcome = "ok"

\* the downloads made by the latest get
Downloads == {i \in 1..Len(xfer.log) : xfer.op = "get" /\ xfer.log[i].outcome = "ok"}

\* C17: get saves each download as the remote file's base name with the node's
\* display name appended as a suffix (under the local directory when one is given),
\* and in a get of one remote file from several distinct resolved nodes no two
\* nodes write the same local file path.
C17_DownloadsNeverCollide ==
    /\ \A i \in Downloads :
          xfer.log[i].path =
             (IF xfer.localdir = <<>> THEN <<"f">> ELSE xfer.localdir \o <<"/", "f">>)
                 \o <<".">> \o xfer.log[i].node.name
    /\ \A i, j \in Downloads :
          node_id(xfer.log[i].node) # node_id(xfer.log[j].node) =>
             xfer.log[i].path # xfer.log[j].path

\* the sessions and Session Registry entries of nodes without an instance
AbsentSessions == {t \in TermsMade : terms[t].node = 0}

IdlePass == dpc = "idle" /\ dpc' = "idle" /\ idle.q # <<>> /\ idle'.q = Tail(idle.q)

\* the idle tick ends, by the end of its loop or by an exception
IdleEnds == dpc = "idle" /\ dpc' # "idle"

\* C20: on an idle tick, for every registered session that is not in raw mode and
\* whose receive buffer is non-empty, the whole buffer is written to the console,
\* every line after the prefix with the node's name, and the buffer is empty
\* afterwards: so for the session of each pass, and for every registered session
\* when the tick ends.
C20_IdleTickFlushesBuffers ==
    [][/\ IdlePass =>
            LET t == chans[Head(idle.q)]
            IN  (terms[t].recvbuf # <<>> /\ ~terms[t].raw_shell_mode) =>
                   /\ console' = console \o flush_out(t)
                   /\ terms'[t].recvbuf = <<>>
       /\ IdleEnds =>
            \A c \in Registered :
               ~terms[chans[c]].raw_shell_mode => terms'[chans[c]].recvbuf = <<>>]_vars

\* C21: the chunks of one channel appear on the console in the order in which
\* they arrived on it (chunk numbers grow with arrival), none reordered or
\* written twice, across reads, idle ticks and switches of mode
C21_ConsoleInArrivalOrder ==
    \A i, j \in 1..Len(console) :
        (i < j /\ console[i].data[1] = console[j].data[1])
            => console[i].data[2] < console[j].data[2]

\* the transport of session t reports authenticated and active
transport_up(t) == terms[t].transport # 0 /\ conn[terms[t].transport].alive

\* C22: term_from_node for a node whose registered session's transport is
\* authenticated and active returns that session, makes no login or connect,
\* and leaves the session registry and the channel registry unchanged
C22_ConnectedSessionReused ==
    [][\A node \in Nodes, ok \in BOOLEAN :
         (/\ session_map[node] # 0
          /\ transport_up(session_map[node])
          /\ LineTerm_command(node, "line", ok)) =>
            /\ cterm' = session_map[node]
            /\ UNCHANGED <<terms, conn, session_map, chans>>]_vars

\* a second command on the node of the only session, served without a login
C22_Witness ==
    /\ nops = 2
    /\ cpc = "cmd_send"
    /\ cterm = 1
    /\ Len(terms) = 1
    /\ Len(conn) = 1
    /\ session_map[terms[1].node] = 1

\* C23: in an iteration of the receive loop every channel the poll reported as
\* readable is read in that iteration: a pass over the readable channels takes
\* the first of those left and leaves the others to be read, whatever it read
C23_EveryReadyChannelRead ==
    [][(dpc = "read" /\ rq' # rq) => rq' = Tail(rq)]_vars

\* C24: the receive loop deregisters only channels that are in the registry (a
\* channel that gave a zero-length read and is also flagged in error in the same
\* iteration is deregistered once), so that no deregistration ends the loop
C24_DeregistersRegisteredOnly ==
    /\ dpc = "read" => chans[Head(rq)] # 0
    /\ dpc = "error" => chans[Head(eq)] # 0

\* C25: a channel flagged in error is handled as a disconnect: the pass over the
\* channels in error leaves it out of the channel registry and its session out
\* of the session registry, out of raw mode and with the terminal restored if it
\* was in raw mode; and once it is flagged and deregistered nothing more is read
\* from it, buffered or written for it
C25_ErrorHandledAsDisconnect ==
    [][/\ (dpc = "error" /\ <<dpc, eq>>' # <<dpc, eq>>) =>
            LET c == Head(eq)
                t == chans[c]
            IN  /\ chans'[c] = 0
                /\ t # 0 =>
                      /\ \A n \in DOMAIN session_map : session_map'[n] # t
                      /\ ~terms'[t].raw_shell_mode
                      /\ terms[t].raw_shell_mode => tty' = terms[t].oldattrs
       /\ \A c \in 1..Len(conn) :
            (conn[c].err /\ chans[c] = 0) =>
                /\ chans'[c] = 0
                /\ Buffered(c)' = Buffered(c)
                /\ Written(c)' = Written(c)
                /\ Len(conn'[c].inbox) >= Len(conn[c].inbox)]_vars

\* a raw shell whose channel was flagged in error, without end of file, and
\* deregistered: the session left raw mode and the terminal is as on entry, the
\* session is out of the registry, and the channel has data that is not read
C25_Witness ==
    /\ cpc = "raw_loop"
    /\ LET c == terms[cterm].chan
       IN  /\ conn[c].err /\ ~conn[c].eof /\ conn[c].inbox # <<>>
           /\ chans[c] = 0
    /\ ~terms[cterm].raw_shell_mode
    /\ tty = tty_on_entry
    /\ session_map[terms[cterm].node] = 0
    /\ dpc = "idle"

\* C26: every chunk appended to a receive buffer is eventually written to the
\* console.  Only the idle tick writes a buffer, for the sessions in the channel
\* registry, and no session is registered again once deregistered: so a chunk
\* that waits in a buffer belongs to a session that is still registered
C26_BufferedBytesStayFlushable ==
    \A t \in TermsMade :
        terms[t].recvbuf # <<>> => \E c \in ConnIds : chans[c] = t

\* C27: every channel in the channel registry is the current shell channel of
\* a session that is in the session registry (no channel of a replaced,
\* re-logged-in or closed session stays registered)
C27_RegisteredChannelsCurrent ==
    \A c \in Registered :
        /\ terms[chans[c]].chan = c
        /\ session_map[terms[chans[c]].node] = chans[c]

\* what a pass over the readable channels that takes channel c reads from it
BytesRead(c) ==
    SubSeq(conn[c].inbox, 1, Len(conn[c].inbox) - Len(conn'[c].inbox))

C29_EchoRestoredOnRawEntry ==
    [][(cpc = "shell_enter" /\ cpc' = "raw_loop") =>
          LET c == terms[cterm].chan
              n == Len(conn[c].sent)
          IN  /\ Len(conn'[c].sent) = n + 2
              /\ conn'[c].sent[n + 1] = EchoOn]_vars

\* C30: the echo flag of a session is false only if the command that disables
\* echo was written to the session's current connection
C30_EchoFlagMatchesRemote ==
    \A t \in TermsMade :
        ~terms[t].echo =>
            /\ terms[t].chan # 0
            /\ \E i \in 1..Len(conn[terms[t].chan].sent) :
                    conn[terms[t].chan].sent[i] = EchoOff

\* ------------------------------------------------------------ resolver claims
\* the operations that end with a reconciliation pass
Resolving == {"get_current_nodes", "resolve_target_nodes", "switch_to_cluster"}

\* the clusters the latest pass resolved
Resolved ==
    IF cur_cluster # <<>> THEN {cur_cluster}
    ELSE {c \in ClusterNames : clusters[c].cloud.region = region}

\* the instances among the candidates of cluster c that its k-th specification matches
SpecMatches(c, k) ==
    LET nodes == nodecache[region].nodes
        cand  == get_cluster_nodes(nodes, c)
        m     == find_matching_node(clusters[c].nodes[k], [i \in 1..Len(cand) |-> nodes[cand[i]]])
    IN  {nodes[cand[m[i]]].vm : i \in 1..Len(m)}

\* C4: after a reconciliation pass, for every cluster resolved and every node
\* specification of it, the cluster's node list holds either every candidate the
\* specification matches (at least one), each with the specification's display name
\* and the cluster name, or exactly one absent node made from the specification with
\* the cluster name; never neither and never both.
C4_ReconciliationComplete ==
    last.op \in Resolving =>
      \A c \in Resolved : \A k \in 1..Len(clusters[c].nodes) :
        LET L  == last.bycluster[c]
            sp == clusters[c].nodes[k]
            M  == SpecMatches(c, k)
            A  == {i \in 1..Len(L) : L[i].vm = 0 /\ L[i].name = sp.nodename}
        IN  IF M # {}
            THEN /\ A = {}
                 /\ \A v \in M : \E i \in 1..Len(L) :
                       L[i].vm = v /\ L[i].name = sp.nodename /\ L[i].cluster = c
            ELSE /\ Cardinality(A) = 1
                 /\ \A i \in A : L[i].cluster = c

\* what a caller can tell of a returned node: its instance (none for an absent
\* node), its display name and its cluster
Ident(result) ==
    [i \in 1..Len(result) |->
        [vm |-> result[i].vm, name |-> result[i].name, cluster |-> result[i].cluster]]

\* C5: a resolution that follows a resolution of the same kind and target, with no
\* invalidation and no cluster switch between them, returns the same sequence of
\* nodes with the same display names and clusters, and does not call refresh.
C5_ResolutionIdempotent ==
    [][(/\ last'.n # last.n
        /\ last'.op \in {"get_current_nodes", "resolve_target_nodes"}
        /\ last.op = last'.op
        /\ last.target = last'.target)
         => /\ ~last'.fetched
            /\ Ident(last'.result) = Ident(last.result)]_vars

\* C6: between two invalidations of a region's cache entry the provider's refresh
\* is called at most once for the region, whatever inventory it returns.
C6_OneRefreshBetweenInvalidations ==
    \A r \in Regions : fetches[r] <= 1

\* C7: a switch to a recognized cluster drops the region's cache entry: the
\* resolution of the switch fetches the inventory, and no node object it returns
\* was made before the switch.
C7_SwitchDropsCache ==
    [][(last'.n # last.n /\ last'.op = "switch_to_cluster")
         => /\ last'.fetched
            /\ \A i \in 1..Len(last'.result) :
                  last'.result[i].vm # 0 => last'.result[i].gen = nfetch']_vars

\* the instances of a list of node objects that the filter of some template selects
Claimed(nodes) ==
    {nodes[i].vm : i \in UNION {Range(get_cluster_nodes(nodes, c)) : c \in ClusterNames}}

\* the instances of the resolved inventory that no template claims
Unclaimed ==
    {nodecache[region].nodes[i].vm : i \in 1..Len(nodecache[region].nodes)}
        \ Claimed(nodecache[region].nodes)

\* the instances in the Unassigned group of the latest result
Unassigned == {last.bycluster[s_Unassigned][j].vm : j \in 1..Len(last.bycluster[s_Unassigned])}

\* C19: in the result of every resolution, with or without a current cluster,
\* every inventory node that no cluster template claims is in the Unassigned group.
C19_UnclaimedNodesUnassigned ==
    last.op \in Resolving => Unclaimed \subseteq Unassigned

\* C19 as amended: in the result of every resolution made with no current cluster
\* selected, every inventory node that no cluster template claims is in the
\* Unassigned group; with a current cluster selected the Unassigned group is empty.
C19_UnclaimedNodesUnassignedNoCurrent ==
    last.op \in Resolving =>
       IF cur_cluster = <<>> THEN Unclaimed \subseteq Unassigned ELSE Unassigned = {}

\* a resolution with no current cluster found an instance that no template claims
C19_Witness ==
    /\ last.op \in Resolving
    /\ cur_cluster = <<>>
    /\ Unclaimed # {}

\* the instances among the inventory nodes that the filter of cluster c selects
Candidates(c) ==
    LET nodes == nodecache[region].nodes
    IN  {nodes[i].vm : i \in Range(get_cluster_nodes(nodes, c))}

\* C31: after a pass, every candidate of a resolved cluster that none of the
\* cluster's node specifications matches is in the cluster's node list as an
\* unnamed discovery, with an empty display name, for any templates and after
\* any earlier resolution on the same cache
C31_UnmatchedCandidatesUnnamed ==
    last.op \in Resolving =>
      \A c \in Resolved :
        LET L == last.bycluster[c]
            matched == UNION {SpecMatches(c, k) : k \in 1..Len(clusters[c].nodes)}
        IN  \A v \in Candidates(c) \ matched :
               \E i \in 1..Len(L) : L[i].vm = v /\ L[i].name = <<>>

\* C32: after a pass, every node in the node list of a cluster has that cluster
\* as its cluster attribute, also when two templates' filters select the same
\* inventory node
C32_ListedNodesCarryCluster ==
    last.op \in Resolving =>
      \A c \in ClusterNames : \A i \in 1..Len(last.bycluster[c]) :
          last.bycluster[c][i].cluster = c

\* C33: the flattened result holds each inventory node at most once, also when
\* several node specifications of a template match the same inventory node
C33_ResultWithoutDuplicates ==
    last.op \in Resolving =>
      \A i, j \in 1..Len(last.result) :
          (i < j /\ last.result[i].vm # 0) => last.result[i].vm # last.result[j].vm

\* the key and the value of a target expression: a filter key=value, or a glob
\* on the name
TargetFilter(target) ==
    IF "=" \in Range(target) THEN split(target, "=") ELSE <<s_name, target>>

\* the field of node that the key names matches the value as an anchored glob
FieldMatches(node, kv) == fnmatch(kv[2], get(node, kv[1]))

\* C34: a key=value target filter returns exactly the nodes whose field named
\* key matches the value as an anchored glob, in the order of the resolved list:
\* every node whose field matches, also one whose field is empty when the glob
\* matches the empty string, and no other node
C34_FilterIsGlobMatch ==
    (/\ last.op = "resolve_target_nodes"
     /\ "=" \in Range(last.target)
     /\ TargetFilter(last.target)[2] # <<>>) =>
        last.result = SelectSeq(last.cluster_nodes,
                                LAMBDA node : FieldMatches(node, TargetFilter(last.target)))

\* C35: for every target expression other than *, also a key=value expression
\* with an empty value, every node returned matches the expression
C35_OnlyMatchingNodes ==
    (last.op = "resolve_target_nodes" /\ last.target # <<"*">>) =>
        \A i \in 1..Len(last.result) :
            FieldMatches(last.result[i], TargetFilter(last.target))

\* C8: command(line) on a session whose state is not connected, or whose transport
\* is not authenticated and active, writes nothing and leaves the session's state,
\* receive buffer and raw-mode flag unchanged; with state connected, an active
\* transport and an open channel the line and then a newline are written.
C8_CommandNoOpUnlessConnected ==
    [][lastcall'.op # lastcall.op =>
         LET t == lastcall'.term
             line == lastcall'.line
             ok == terms[t].state = "connected" /\ is_connected(t)
         IN  /\ terms'[t].state = terms[t].state
             /\ terms'[t].recvbuf = terms[t].recvbuf
             /\ terms'[t].raw_shell_mode = terms[t].raw_shell_mode
             /\ ~ok => \A c \in 1..Len(conn) : conn'[c].sent = conn[c].sent
             /\ (ok /\ ~conn[terms[t].chan].eof) =>
                   /\ conn'[terms[t].chan].sent = conn[terms[t].chan].sent \o <<line, NL>>
                   /\ \A c \in 1..Len(conn) :
                        c # terms[t].chan => conn'[c].sent = conn[c].sent]_vars

\* command was called on a session that is shut down, or whose transport is gone
C8_Witness ==
    /\ lastcall.op # 0
    /\ lastcall.state = "shutdown" \/ (lastcall.state = "connected" /\ ~lastcall.connected)

\* C9: once a session's state is shutdown, no later operation changes its state or
\* opens a new transport or channel for it.
C9_ShutdownIsTerminal ==
    [][\A t \in TermsMade :
         terms[t].state = "shutdown" =>
            /\ terms'[t].state = "shutdown"
            /\ terms'[t].transport = terms[t].transport
            /\ terms'[t].chan = terms[t].chan]_vars

====
